---- MODULE Spec2Model ----
(***************************************************************************)
(* The Export subcommand of ord-export (src/src/subcommand.rs, lines       *)
(* 77-136): walk the index newest to oldest in pages, keep the text        *)
(* inscriptions, drop repeated texts, write one csv record per kept text.  *)
(*                                                                         *)
(* The index (Index::get_latest_inscriptions_with_prev_and_next,           *)
(* get_inscription_by_id, get_inscription_entry) is not part of src/; it   *)
(* is modelled from sections 3, 4.1 and 6 of the specification.            *)
(***************************************************************************)
EXTENDS Integers, Sequences, FiniteSets, TLC

VARIABLES
  index,      \* the immutable index: index[k+1] is the inscription numbered k
  pageSize,   \* the page size of the paging loop (1000 in the source, scaled)
  pc,         \* position of the run in the code
  out,        \* csv records handed to csv.write_record so far, in order
  flushed,    \* number of records of out made durable by csv.flush
  from,       \* the cursor *from (Option<u64>)
  total,      \* progress_bar length
  position,   \* progress_bar position
  seen,       \* the HashSet<String> of decoded texts
  inscs,      \* ids of the current page still to be handled by the for loop
  requests,   \* history: the page requests answered so far, [n, from]
  visited,    \* history: the ids the body of the for loop was entered with
  err         \* message of the terminating error, "" while there is none

vars == <<index, pageSize, pc, out, flushed, from, total, position, seen,
          inscs, requests, visited, err>>

----------------------------------------------------------------------------
(* Bounds of the model. *)

MaxRecords == 3
MaxPageSize == 2

(* Option<T>: None is the empty sequence, Some(x) the sequence <<x>>. *)
None == <<>>
Some(x) == <<x>>
IsSome(o) == o # <<>>
Unwrap(o) == o[1]

Min(a, b) == IF a < b THEN a ELSE b

----------------------------------------------------------------------------
(* Input domains: what an index may hold. *)

\* Raw bytes: 0x61 'a', 0xC3 (lead byte of a two-byte sequence), 0xA9 (a
\* continuation byte).
Bodies == {<<>>, <<97>>, <<195>>, <<169>>, <<195, 169>>}
MediaKinds == {"Text", "Image"}
Timestamps == {1000, 2000}

\* Inscription { media, body: Option<Vec<u8>> }
Inscriptions == [media : MediaKinds, body : {None} \cup {Some(b) : b \in Bodies}]
\* InscriptionEntry { timestamp: u32 }
Entries == [timestamp : Timestamps]

\* One slot of the index: what the two lookups return for its id.
Slots == [data : {None} \cup {Some(d) : d \in Inscriptions},
          entry : {None} \cup {Some(e) : e \in Entries}]

\* The indexes of n inscriptions.
Indexes(n) == [1..n -> Slots]

----------------------------------------------------------------------------
(* The index, modelled from the specification. *)

\* The InscriptionId of the inscription numbered k.
IdOf(k) == "tx" \o ToString(k) \o "i0"

Numbers == 0..(Len(index) - 1)

NumberOf(id) == CHOOSE k \in Numbers : IdOf(k) = id

\* fetch_page(page_size, cursor) -> (ids, older_cursor, newer_cursor)
get_latest_inscriptions_with_prev_and_next(n, cursor) ==
  IF index = <<>>
  THEN [inscs |-> <<>>, prev |-> None, next |-> None]
  ELSE LET latest == Len(index) - 1
           f == IF IsSome(cursor) THEN Unwrap(cursor) ELSE latest
       IN [inscs |-> [i \in 1..Min(n, f + 1) |-> IdOf(f - i + 1)],
           prev  |-> IF f - n >= 0 THEN Some(f - n) ELSE None,
           next  |-> IF f < latest THEN Some(Min(f + n, latest)) ELSE None]

\* record_by_id(id) -> optional Record
get_inscription_by_id(id) == index[NumberOf(id) + 1].data

\* entry_by_id(id) -> optional RecordEntry
get_inscription_entry(id) == index[NumberOf(id) + 1].entry

----------------------------------------------------------------------------
(* Pure functions of the pipeline. *)

HexDigits == <<"0", "1", "2", "3", "4", "5", "6", "7",
               "8", "9", "a", "b", "c", "d", "e", "f">>

\* rustc_serialize::hex::ToHex: two lowercase digits per byte.
RECURSIVE to_hex(_)
to_hex(bytes) ==
  IF bytes = <<>> THEN ""
  ELSE HexDigits[(Head(bytes) \div 16) + 1] \o HexDigits[(Head(bytes) % 16) + 1]
       \o to_hex(Tail(bytes))

\* Sha3_256 over the raw bytes.  The digest is not computed; it is a
\* collision-free function of its input: the tagged input itself.
Sha3_256(bytes) == <<83, 72, 65, 51>> \o bytes

\* One decoded character, written as a string.
Char(cp) ==
  IF cp = 97 THEN "a"
  ELSE IF cp = 233 THEN "<U+00E9>"
  ELSE "<U+FFFD>"

IsContinuation(b) == b >= 128 /\ b <= 191

\* String::from_utf8_lossy(..).to_string(): ASCII bytes and well-formed
\* two-byte sequences decode to their character, every other byte is
\* replaced by U+FFFD.
RECURSIVE from_utf8_lossy(_)
from_utf8_lossy(bytes) ==
  IF bytes = <<>> THEN ""
  ELSE LET b == Head(bytes) IN
    IF b < 128 THEN Char(b) \o from_utf8_lossy(Tail(bytes))
    ELSE IF b >= 194 /\ b <= 223 /\ Len(bytes) >= 2 /\ IsContinuation(bytes[2])
      THEN Char((b - 192) * 64 + (bytes[2] - 128))
           \o from_utf8_lossy(Tail(Tail(bytes)))
      ELSE Char(65533) \o from_utf8_lossy(Tail(bytes))

Pad2(n) == IF n < 10 THEN "0" \o ToString(n) ELSE ToString(n)

\* insc_time.timestamp as i64 * 1000
TimestampMillis_unscaled(timestamp) == timestamp
TimestampMillis(timestamp) == timestamp * 1000

\* NaiveDateTime::from_timestamp_millis, DateTime::<Utc>::from_utc and
\* to_rfc3339, for instants of January 1970.
to_rfc3339(millis) ==
  LET secs == millis \div 1000
      day  == secs \div 86400
      sod  == secs % 86400
  IN "1970-01-" \o Pad2(day + 1) \o "T" \o Pad2(sod \div 3600) \o ":"
     \o Pad2((sod % 3600) \div 60) \o ":" \o Pad2(sod % 60) \o "+00:00"

\* format!("https://ordinals.com/inscription/{insc}")
Link(id) == "https://ordinals.com/inscription/" \o id

HeaderRecord == <<"hash", "timestamp", "text", "link">>

\* The record of lines 119-124.
DataRecord(id, body, entry) ==
  <<to_hex(Sha3_256(body)),
    to_rfc3339(TimestampMillis(entry.timestamp)),
    from_utf8_lossy(body),
    Link(id)>>

\* match data.media() { Media::Text => .. , _ => {} }
IsText_any(data) == TRUE
IsText(data) == data.media = "Text"

\* seen.contains(&text)
seen_contains_never(set, text) == FALSE
seen_contains(set, text) == text \in set

\* seen.insert(text.clone())
seen_insert_skipped(set, text) == set
seen_insert(set, text) == set \cup {text}

\* The key of the dedup set: of the two locals `hash` and `text` of lines
\* 108-109, the decoded text.
seen_key_hash(hash, text) == hash
seen_key(hash, text) == text

\* `for insc in inscs`: the iterator yields the ids front to back; the pair
\* is the id it yields and what is left of the page.
IterNext_back(page) == <<page[Len(page)], SubSeq(page, 1, Len(page) - 1)>>
IterNext(page) == <<Head(page), Tail(page)>>

----------------------------------------------------------------------------
(* The run. *)

Init ==
  /\ \E n \in 0..MaxRecords : index \in Indexes(n)
  /\ pageSize \in 1..MaxPageSize
  /\ pc = "header"
  /\ out = <<>>
  /\ flushed = 0
  /\ from = None
  /\ total = 0
  /\ position = 0
  /\ seen = {}
  /\ inscs = <<>>
  /\ requests = <<>>
  /\ visited = <<>>
  /\ err = ""

\* line 84: csv.write_record(&["hash", "timestamp", "text", "link"])
WriteHeader_skipped ==
  /\ pc = "header"
  /\ pc' = "probe"
  /\ UNCHANGED <<index, pageSize, out, flushed, from, total, position, seen,
                 inscs, requests, visited, err>>
WriteHeader ==
  /\ pc = "header"
  /\ out' = Append(out, HeaderRecord)
  /\ pc' = "probe"
  /\ UNCHANGED <<index, pageSize, flushed, from, total, position, seen,
                 inscs, requests, visited, err>>

\* lines 86-88: the size-1 probe, prev.expect("No inscriptions found.")
Probe_unchecked ==
  /\ pc = "probe"
  /\ LET page == get_latest_inscriptions_with_prev_and_next(1, None) IN
       /\ requests' = Append(requests, [n |-> 1, from |-> None])
       /\ total' = IF IsSome(page.prev) THEN Unwrap(page.prev) ELSE 0
       /\ position' = 0
       /\ pc' = "fetch"
       /\ UNCHANGED err
  /\ UNCHANGED <<index, pageSize, out, flushed, from, seen, inscs, visited>>
Probe ==
  /\ pc = "probe"
  /\ LET page == get_latest_inscriptions_with_prev_and_next(1, None) IN
       /\ requests' = Append(requests, [n |-> 1, from |-> None])
       /\ IF IsSome(page.prev)
          THEN /\ total' = Unwrap(page.prev)
               /\ position' = 0
               /\ pc' = "fetch"
               /\ UNCHANGED err
               /\ UNCHANGED flushed
          ELSE \* the panic unwinds and drops csv, which flushes it
               /\ pc' = "panicked"
               /\ err' = "No inscriptions found."
               /\ flushed' = Len(out)
               /\ UNCHANGED <<total, position>>
  /\ UNCHANGED <<index, pageSize, out, from, seen, inscs, visited>>

\* lines 94-98: one page request of the loop; break on prev == None
FetchPage_keepcursor ==
  /\ pc = "fetch"
  /\ LET page == get_latest_inscriptions_with_prev_and_next(pageSize, from) IN
       /\ requests' = Append(requests, [n |-> pageSize, from |-> from])
       /\ IF page.prev = None
          THEN /\ pc' = "exhausted"
               /\ UNCHANGED <<from, inscs>>
          ELSE /\ UNCHANGED from
               /\ inscs' = page.inscs
               /\ pc' = "ids"
  /\ UNCHANGED <<index, pageSize, out, flushed, total, position, seen,
                 visited, err>>
FetchPage ==
  /\ pc = "fetch"
  /\ LET page == get_latest_inscriptions_with_prev_and_next(pageSize, from) IN
       /\ requests' = Append(requests, [n |-> pageSize, from |-> from])
       /\ IF page.prev = None
          THEN /\ pc' = "exhausted"
               /\ UNCHANGED <<from, inscs>>
          ELSE /\ from' = page.prev
               /\ inscs' = page.inscs
               /\ pc' = "ids"
  /\ UNCHANGED <<index, pageSize, out, flushed, total, position, seen,
                 visited, err>>

\* lines 99-131: the body of the for loop, for the next id of the page
ProcessId ==
  /\ pc = "ids"
  /\ inscs # <<>>
  /\ LET insc == IterNext(inscs)[1]
         rest == IterNext(inscs)[2]
         insc_data == get_inscription_by_id(insc)
         insc_time == get_inscription_entry(insc)
     IN
       /\ visited' = Append(visited, insc)
       /\ IF IsSome(insc_data) /\ IsText(Unwrap(insc_data))
             /\ IsSome(Unwrap(insc_data).body)
          THEN LET body == Unwrap(Unwrap(insc_data).body)
                   hash == to_hex(Sha3_256(body))
                   text == from_utf8_lossy(body)
               IN IF seen_contains(seen, seen_key(hash, text))
                  THEN \* continue: progress_bar.inc is not reached
                       /\ inscs' = rest
                       /\ UNCHANGED <<pc, out, flushed, position, seen, err>>
                  ELSE /\ seen' = seen_insert(seen, seen_key(hash, text))
                       /\ IF IsSome(insc_time)
                          THEN /\ out' = Append(out,
                                    DataRecord(insc, body, Unwrap(insc_time)))
                               /\ position' = position + 1
                               /\ inscs' = rest
                               /\ UNCHANGED <<pc, flushed, err>>
                          ELSE \* insc_time.unwrap() panics; the panic unwinds
                               \* and drops csv, which flushes it
                               /\ pc' = "panicked"
                               /\ err' = "called Option::unwrap() on a None value"
                               /\ flushed' = Len(out)
                               /\ UNCHANGED <<out, position, inscs>>
          ELSE /\ position' = position + 1
               /\ inscs' = rest
               /\ UNCHANGED <<pc, out, flushed, seen, err>>
  /\ UNCHANGED <<index, pageSize, from, total, requests>>

\* line 132: csv.flush() after the for loop
Flush ==
  /\ pc = "ids"
  /\ inscs = <<>>
  /\ flushed' = Len(out)
  /\ pc' = "fetch"
  /\ UNCHANGED <<index, pageSize, out, from, total, position, seen, inscs,
                 requests, visited, err>>

\* lines 134-135: finish_and_clear, Ok(()); csv is dropped, which flushes it
Finish_noflush ==
  /\ pc = "exhausted"
  /\ pc' = "done"
  /\ UNCHANGED <<index, pageSize, out, flushed, from, total, position, seen,
                 inscs, requests, visited, err>>
Finish ==
  /\ pc = "exhausted"
  /\ flushed' = Len(out)
  /\ pc' = "done"
  /\ UNCHANGED <<index, pageSize, out, from, total, position, seen, inscs,
                 requests, visited, err>>

\* lines 86, 94, 100, 101: an index read returns Err and `?` returns it; csv
\* is dropped on the way out, which flushes it
IndexReadError_swallowed ==
  /\ \/ pc \in {"probe", "fetch"}
     \/ pc = "ids" /\ inscs # <<>>
  /\ err = ""
  /\ err' = "IndexReadError"
  /\ UNCHANGED <<index, pageSize, pc, out, flushed, from, total, position,
                 seen, inscs, requests, visited>>
IndexReadError ==
  /\ \/ pc \in {"probe", "fetch"}
     \/ pc = "ids" /\ inscs # <<>>
  /\ pc' = "error"
  /\ err' = "IndexReadError"
  /\ flushed' = Len(out)
  /\ UNCHANGED <<index, pageSize, out, from, total, position, seen,
                 inscs, requests, visited>>

Next ==
  \/ WriteHeader
  \/ Probe
  \/ FetchPage
  \/ ProcessId
  \/ Flush
  \/ Finish
  \/ IndexReadError

Spec == Init /\ [][Next]_vars

----------------------------------------------------------------------------
(* Vocabulary of the properties. *)

Range(s) == {s[i] : i \in 1..Len(s)}

\* Positions of out that hold a data record.
DataRowIdx == {i \in 1..Len(out) : out[i] # HeaderRecord}

Slot(k) == index[k + 1]

HasRecord(k) == IsSome(Slot(k).data)
HasEntry(k) == IsSome(Slot(k).entry)
MediaOf(k) == Unwrap(Slot(k).data).media
HasBody(k) == HasRecord(k) /\ IsSome(Unwrap(Slot(k).data).body)
BodyOf(k) == Unwrap(Unwrap(Slot(k).data).body)
TimestampOf(k) == Unwrap(Slot(k).entry).timestamp

\* The inscriptions the specification's filter accepts.
TextWithBody(k) == HasBody(k) /\ MediaOf(k) = "Text" /\ BodyOf(k) # <<>>
TextOf(k) == from_utf8_lossy(BodyOf(k))

\* The inscriptions a data record links to.
SourcesOf(row) == {k \in Numbers : row[4] = Link(IdOf(k))}

RowsWithText(t) == {i \in DataRowIdx : out[i][3] = t}

\* The inscriptions the for loop has been entered with.
VisitedNumbers == {k \in Numbers : IdOf(k) \in Range(visited)}

\* The page requests of the loop (requests[1] is the probe).
LoopRequests == SubSeq(requests, 2, Len(requests))

----------------------------------------------------------------------------
(* C1: a run that completes successfully has passed every id of every page *)
(* through the pipeline, the page returned with an absent older cursor     *)
(* included: every decoded text of a Text inscription with a non-empty     *)
(* body is in exactly one data record.  The code breaks out of the loop    *)
(* before the for loop when prev is None, so this is violated.             *)
C1_EveryPageExported ==
  pc = "done" =>
    /\ \A k \in Numbers : IdOf(k) \in Range(visited)
    /\ \A k \in Numbers :
         TextWithBody(k) => Cardinality(RowsWithText(TextOf(k))) = 1

(* C2: no two data records written so far have the same text field. *)
C2_TextUnique ==
  \A i, j \in DataRowIdx : out[i][3] = out[j][3] => i = j

\* A second inscription with an already written text has been handled, and
\* dropped.
C2_Witness ==
  /\ \E k1, k2 \in VisitedNumbers :
       /\ k1 # k2
       /\ TextWithBody(k1) /\ TextWithBody(k2)
       /\ TextOf(k1) = TextOf(k2)
  /\ DataRowIdx # {}
  /\ pc = "done"

(* C3: when a text occurs in several inscriptions, a completed run holds   *)
(* exactly one data record for it, with the id and the timestamp of the    *)
(* newest of them.  Violated when all of them lie in the page the loop     *)
(* breaks on.                                                              *)
C3_NewestDuplicateWins ==
  pc = "done" =>
    \A k1, k2 \in Numbers :
      (k1 < k2 /\ TextWithBody(k1) /\ TextWithBody(k2)
         /\ TextOf(k1) = TextOf(k2)
         /\ \A k \in Numbers : (TextWithBody(k) /\ TextOf(k) = TextOf(k2)) => k <= k2)
      => /\ Cardinality(RowsWithText(TextOf(k2))) = 1
         /\ \A i \in RowsWithText(TextOf(k2)) :
              /\ out[i][4] = Link(IdOf(k2))
              /\ HasEntry(k2)
              /\ out[i][2] = to_rfc3339(TimestampMillis(TimestampOf(k2)))

(* C4: every data record links to an inscription whose media is Text. *)
C4_OnlyText ==
  \A i \in DataRowIdx :
    /\ SourcesOf(out[i]) # {}
    /\ \A k \in SourcesOf(out[i]) : HasRecord(k) /\ MediaOf(k) = "Text"

\* An inscription that is not Text and has a non-empty body has been handled,
\* and a data record has been written.
C4_Witness ==
  /\ \E k \in VisitedNumbers :
       HasBody(k) /\ MediaOf(k) # "Text" /\ BodyOf(k) # <<>> /\ HasEntry(k)
  /\ DataRowIdx # {}

(* C5: no data record is written for a Text inscription whose body is      *)
(* absent or empty, and such an inscription raises no error.  Violated: a  *)
(* present body of length 0 passes `if let Some(text) = data.body()`.      *)
C5_EmptyBodyRejected ==
  /\ \A i \in DataRowIdx : \A k \in SourcesOf(out[i]) :
       HasBody(k) /\ BodyOf(k) # <<>>
  /\ (pc = "panicked" /\ visited # <<>>) =>
       LET k == NumberOf(visited[Len(visited)]) IN
         ~(HasRecord(k) /\ MediaOf(k) = "Text" /\ ~TextWithBody(k))

(* C6: an id whose record or entry is missing is skipped silently: no data *)
(* record is written, no error is raised, the for loop goes on to the next *)
(* id and the progress position advances by one.  Violated: the entry is   *)
(* unwrapped for a Text inscription with a new text.                       *)
C6_MissingSkippedSilently ==
  [][(/\ pc = "ids"
      /\ inscs # <<>>
      /\ \/ get_inscription_by_id(Head(inscs)) = None
         \/ get_inscription_entry(Head(inscs)) = None
      /\ pc' # "error")
     => (/\ out' = out
         /\ pc' = "ids"
         /\ err' = err
         /\ inscs' = Tail(inscs)
         /\ position' = position + 1)]_vars

(* C7: every data record is coherent with the inscription it links to: its *)
(* hash is the hex digest of the raw body, its text the lossy decoding of  *)
(* that body and its timestamp the RFC 3339 form of that id's entry.       *)
C7_RowCoherent ==
  \A i \in DataRowIdx :
    /\ SourcesOf(out[i]) # {}
    /\ \A k \in SourcesOf(out[i]) :
         /\ HasBody(k)
         /\ HasEntry(k)
         /\ out[i][1] = to_hex(Sha3_256(BodyOf(k)))
         /\ out[i][3] = from_utf8_lossy(BodyOf(k))
         /\ out[i][2] = to_rfc3339(TimestampOf(k) * 1000)

\* Two data records, one of a body that is not valid UTF-8, one of a body
\* that decodes to a two-byte character.
C7_Witness ==
  /\ \E i \in DataRowIdx : \E k \in SourcesOf(out[i]) :
       HasBody(k) /\ BodyOf(k) \in {<<195>>, <<169>>}
  /\ \E i \in DataRowIdx : \E k \in SourcesOf(out[i]) :
       HasBody(k) /\ BodyOf(k) = <<195, 169>>

(* C8: the header record is written once, before any data record and      *)
(* before any page request: once the first write is past, out is the       *)
(* header followed by data records only.                                   *)
C8_HeaderFirstOnce ==
  /\ pc = "header" => (out = <<>> /\ requests = <<>>)
  /\ pc # "header" =>
       /\ Len(out) >= 1
       /\ out[1] = HeaderRecord
       /\ \A i \in 2..Len(out) : out[i] # HeaderRecord

\* Data records follow the header after several page requests.
C8_Witness ==
  /\ Len(out) >= 3
  /\ Len(requests) >= 3

(* C9: on an empty index the run writes the header, then ends with the     *)
(* panic of the probe: no data record, no request of the loop's page size, *)
(* no success.                                                             *)
C9_EmptyIndex ==
  index = <<>> =>
    /\ pc \in {"header", "probe", "panicked", "error"}
    /\ requests # <<>> =>
         /\ pc = "panicked"
         /\ err = "No inscriptions found."
         /\ out = <<HeaderRecord>>
    /\ \A i \in 1..Len(requests) : requests[i].n = 1
    /\ DataRowIdx = {}

\* The probe of an empty index has been answered.
C9_Witness ==
  /\ index = <<>>
  /\ requests # <<>>
  /\ pc = "panicked"

(* C10: the cursors of the loop's page requests strictly decrease, none is *)
(* requested twice, only the last request is answered with an absent older *)
(* cursor, and there are at most as many requests as inscriptions.         *)
C10_CursorDecreases ==
  LET L == LoopRequests IN
    /\ \A i, j \in 1..Len(L) :
         i < j => /\ IsSome(L[j].from)
                  /\ L[i].from # L[j].from
                  /\ IsSome(L[i].from) => Unwrap(L[i].from) > Unwrap(L[j].from)
    /\ \A i \in 1..Len(L) : L[i].from = None => i = 1
    /\ Len(L) <= Len(index)
    /\ \A i \in 1..Len(L) :
         LET page == get_latest_inscriptions_with_prev_and_next(L[i].n, L[i].from)
         IN page.prev = None <=> (i = Len(L) /\ pc \in {"exhausted", "done"})

\* A run of three page requests that reached the end of the index.
C10_Witness ==
  /\ Len(LoopRequests) >= 3
  /\ pc = "done"

----------------------------------------------------------------------------
(* Vocabulary of the durability, progress and phase properties. *)

\* What the file holds when the process is stopped now.  The records of the
\* model never fill the buffers of csv::Writer and BufWriter (8 KiB each), so
\* the file holds what the last flush put there.
Durable == SubSeq(out, 1, flushed)

PageIds(request) ==
  get_latest_inscriptions_with_prev_and_next(request.n, request.from).inscs

PagePrev(request) ==
  get_latest_inscriptions_with_prev_and_next(request.n, request.from).prev

\* The loop requests whose page went through the for loop and the flush
\* after it.
FlushedPages ==
  LET entered == {i \in 1..Len(LoopRequests) : PagePrev(LoopRequests[i]) # None}
  IN IF pc = "ids" THEN entered \ {Len(LoopRequests)} ELSE entered

FlushedIds == UNION {Range(PageIds(LoopRequests[i])) : i \in FlushedPages}

IsRowOfFlushedPage(row) ==
  row # HeaderRecord /\ \E id \in FlushedIds : row[4] = Link(id)

\* The states of section 4.7: 1 Starting, 2 Paging, 3 Exhausted, 4 failed.
Phase(p) ==
  CASE p \in {"header", "probe"} -> 1
    [] p \in {"fetch", "ids"} -> 2
    [] p \in {"exhausted", "done"} -> 3
    [] OTHER -> 4

\* The inscriptions the body of the for loop has run to its end for.
HandledNumbers ==
  {k \in VisitedNumbers :
     ~(pc = "panicked" /\ IdOf(k) = visited[Len(visited)])}

\* The inscriptions that get as far as the dedup set.
ReachesDedup(k) == HasBody(k) /\ MediaOf(k) = "Text"

----------------------------------------------------------------------------
(* C11: a run stopped at any point leaves a file that is the header        *)
(* followed by exactly the data records of the pages flushed so far, in    *)
(* order.  Violated: the header stays in the buffer until the first        *)
(* csv.flush, so a run stopped after the header was written and before     *)
(* that flush leaves an empty file.                                        *)
C11_DurableAtFlushBoundary ==
  pc \notin {"header", "panicked", "error"} =>
    Durable = <<HeaderRecord>> \o SelectSeq(out, IsRowOfFlushedPage)

(* C12: at every page boundary the progress position is the number of ids  *)
(* of the pages handled so far, whatever became of each id.  Violated: the *)
(* `continue` of a duplicate text skips progress_bar.inc.                  *)
C12_PositionCountsIds ==
  pc \in {"fetch", "exhausted", "done"} => position = Len(visited)

(* C13: a failed index read ends the run with the error at once: nothing   *)
(* is requested, handled or written after it, what was flushed before it   *)
(* is still there, and the file is the header followed by whole records.   *)
C13_IndexReadAborts ==
  /\ [](err = "IndexReadError" => pc = "error")
  /\ [][(pc' = "error" /\ pc # "error") =>
          /\ err' = "IndexReadError"
          /\ out' = out
          /\ requests' = requests
          /\ visited' = visited
          /\ flushed' >= flushed
          /\ SubSeq(out', 1, flushed) = Durable
          /\ flushed' >= 1
          /\ out'[1] = HeaderRecord
          /\ \A i \in 2..flushed' : out'[i] # HeaderRecord /\ Len(out'[i]) = 4]_vars
  /\ [][pc = "error" => UNCHANGED vars]_vars

\* A lookup failed in the middle of a page, after a data record was written.
C13_Witness ==
  /\ pc = "error"
  /\ inscs # <<>>
  /\ visited # <<>>
  /\ Len(out) >= 2

(* C14: the run goes Starting, Paging, Exhausted and never back; success   *)
(* is reported from Exhausted only, and then every record written is       *)
(* flushed.                                                                *)
C14_PhaseOrder ==
  /\ [](pc = "done" => (flushed = Len(out) /\ err = ""))
  /\ [][/\ Phase(pc') >= Phase(pc)
        /\ (Phase(pc') = 2 /\ Phase(pc) # 2) => Phase(pc) = 1
        /\ (Phase(pc') = 3 /\ Phase(pc) # 3) => Phase(pc) = 2
        /\ pc' = "done" => pc \in {"exhausted", "done"}]_vars

\* Success after data records were written.
C14_Witness ==
  /\ pc = "done"
  /\ Len(out) >= 3

(* C15: throughout Paging the progress position is at most the total taken *)
(* from the probe.  Violated: the probe's older cursor is the number of    *)
(* the second newest inscription, two less than the number of ids.         *)
C15_PositionWithinTotal ==
  pc \in {"fetch", "ids"} => position <= total

(* C16: the probe fails with "No inscriptions found." only on an index     *)
(* without inscriptions.  Violated: the probe of an index of exactly one   *)
(* inscription has no older cursor either.                                 *)
C16_ProbeFailsOnlyWhenEmpty ==
  err = "No inscriptions found." => index = <<>>

C18_RowsInTraversalOrder ==
  \A i, j \in DataRowIdx :
    i < j => \A ki \in SourcesOf(out[i]) : \A kj \in SourcesOf(out[j]) : ki > kj

\* Two data records of one page, the first with the smaller timestamp.
C18_Witness ==
  \E i, j \in DataRowIdx :
    /\ i < j
    /\ pageSize >= 2
    /\ \E ki \in SourcesOf(out[i]) : \E kj \in SourcesOf(out[j]) :
         HasEntry(ki) /\ HasEntry(kj) /\ TimestampOf(ki) < TimestampOf(kj)

(* C19: at every page boundary of a run that has not failed the dedup set  *)
(* is the set of the text fields of the data records written so far, and   *)
(* the set never loses an element.                                         *)
C19_SeenIsRowTexts ==
  /\ [](pc \in {"fetch", "exhausted", "done"} =>
          seen = {out[i][3] : i \in DataRowIdx})
  /\ [][seen \subseteq seen']_vars

\* A page boundary after the flush of two data records.
C19_Witness ==
  /\ pc = "fetch"
  /\ Cardinality(seen) >= 2
  /\ flushed >= 3

====
